---- MODULE Spec2Model ----
(***************************************************************************)
(* Model of deluge_cleanup.py: the console client (Deluge.run_command),    *)
(* the report parser (parse_torrent_info) and the orchestrator (main).     *)
(*                                                                         *)
(* Text is a sequence of lexemes.  A lexeme is an atomic piece of text: a  *)
(* label such as "Name:", a blank " ", a newline "\n", or a word that      *)
(* contains no label, blank or newline.  Python's str operations are       *)
(* written over these sequences.                                           *)
(***************************************************************************)
EXTENDS Integers, Sequences, FiniteSets, TLC

\* Largest number of blank-line-separated blocks in a console dump.
MaxBlocks == 2

None == "None"

NL == "\n"
SP == " "
Whitespace == {SP, NL}

----------------------------------------------------------------------------
(* str helpers *)

RECURSIVE lstrip(_)
lstrip(s) == IF s # <<>> /\ Head(s) \in Whitespace THEN lstrip(Tail(s)) ELSE s

RECURSIVE rstrip(_)
rstrip(s) ==
    IF s # <<>> /\ s[Len(s)] \in Whitespace
    THEN rstrip(SubSeq(s, 1, Len(s) - 1))
    ELSE s

\* str.strip()
strip(s) == rstrip(lstrip(s))

\* str.find(sep) + 1: position of the leftmost occurrence of sep, 0 if none
find(s, sep) ==
    LET hits == {k \in 1..(Len(s) - Len(sep) + 1) :
                    s[k] = sep[1] /\ SubSeq(s, k, k + Len(sep) - 1) = sep}
    IN IF hits = {} THEN 0 ELSE CHOOSE k \in hits : \A j \in hits : k <= j

\* str.split(sep): leftmost, non-overlapping occurrences
RECURSIVE split(_, _)
split(s, sep) ==
    LET k == find(s, sep)
    IN IF k = 0 THEN <<s>>
       ELSE <<SubSeq(s, 1, k - 1)>>
            \o split(SubSeq(s, k + Len(sep), Len(s)), sep)

\* str.startswith(label), label a single lexeme
startswith(line, label) == Len(line) >= 1 /\ line[1] = label

\* label in line
contains(line, label) == \E k \in 1..Len(line) : line[k] = label

\* The numerals of the model and their values in tenths.
Numerals ==
    [n \in {"0", "0.4", "0.5", "0.6"} |->
        CASE n = "0" -> 0 [] n = "0.4" -> 4 [] n = "0.5" -> 5 [] n = "0.6" -> 6]

\* float(s) raises ValueError unless s, stripped, is one numeral
float_raises(s) == ~(Len(strip(s)) = 1 /\ strip(s)[1] \in DOMAIN Numerals)

float(s) == Numerals[strip(s)[1]]

----------------------------------------------------------------------------
(* parse_torrent_info *)

\* name, torrent_id, state, ratio, tracker = "", "", "", 0, ""
NewFields ==
    [name |-> <<>>, id |-> <<>>, state |-> <<>>, ratio |-> 0,
     tracker |-> <<>>, raised |-> FALSE]

\* parse_line looking for the share ratio before the line's own label
parse_line_ratio_first(f, line) ==
    IF f.raised THEN f
    ELSE IF contains(line, "Share Ratio:")
    THEN LET txt == strip(split(line, <<"Share Ratio:">>)[2])
         IN IF float_raises(txt)
            THEN [f EXCEPT !.raised = TRUE]
            ELSE [f EXCEPT !.ratio = float(txt)]
    ELSE IF startswith(line, "Name:")
    THEN [f EXCEPT !.name = strip(split(line, <<"Name:">>)[2])]
    ELSE IF startswith(line, "ID:")
    THEN [f EXCEPT !.id = strip(split(line, <<"ID:">>)[2])]
    ELSE IF startswith(line, "State:")
    THEN [f EXCEPT !.state = strip(split(line, <<"State:">>)[2])]
    ELSE IF startswith(line, "Tracker:")
    THEN [f EXCEPT !.tracker = strip(split(line, <<"Tracker:">>)[2])]
    ELSE f

\* parse_line passing over a share ratio that is no number
parse_line_skip_bad(f, line) ==
    IF startswith(line, "Name:")
    THEN [f EXCEPT !.name = strip(split(line, <<"Name:">>)[2])]
    ELSE IF startswith(line, "ID:")
    THEN [f EXCEPT !.id = strip(split(line, <<"ID:">>)[2])]
    ELSE IF startswith(line, "State:")
    THEN [f EXCEPT !.state = strip(split(line, <<"State:">>)[2])]
    ELSE IF contains(line, "Share Ratio:")
    THEN LET txt == strip(split(line, <<"Share Ratio:">>)[2])
         IN IF float_raises(txt) THEN f ELSE [f EXCEPT !.ratio = float(txt)]
    ELSE IF startswith(line, "Tracker:")
    THEN [f EXCEPT !.tracker = strip(split(line, <<"Tracker:">>)[2])]
    ELSE f

\* One iteration of "for line in lines": the if/elif chain.
parse_line(f, line) ==
    IF f.raised THEN f
    ELSE IF startswith(line, "Name:")
    THEN [f EXCEPT !.name = strip(split(line, <<"Name:">>)[2])]
    ELSE IF startswith(line, "ID:")
    THEN [f EXCEPT !.id = strip(split(line, <<"ID:">>)[2])]
    ELSE IF startswith(line, "State:")
    THEN [f EXCEPT !.state = strip(split(line, <<"State:">>)[2])]
    ELSE IF contains(line, "Share Ratio:")
    THEN LET txt == strip(split(line, <<"Share Ratio:">>)[2])
         IN IF float_raises(txt)
            THEN [f EXCEPT !.raised = TRUE]
            ELSE [f EXCEPT !.ratio = float(txt)]
    ELSE IF startswith(line, "Tracker:")
    THEN [f EXCEPT !.tracker = strip(split(line, <<"Tracker:">>)[2])]
    ELSE f

RECURSIVE parse_lines(_, _)
parse_lines(f, lines) ==
    IF lines = <<>> THEN f
    ELSE parse_lines(parse_line(f, Head(lines)), Tail(lines))

\* The body of "for section in sections" up to the "if name and torrent_id".
parse_section(section) == parse_lines(NewFields, split(section, <<NL>>))

\* Deluge.Torrent(name, torrent_id, state, ratio, tracker)
Torrent(f) ==
    [name |-> f.name, id |-> f.id, state |-> f.state, ratio |-> f.ratio,
     tracker |-> f.tracker]

\* keep with "or" for "and"
keep_either(f) == f.name # <<>> \/ f.id # <<>>

\* if name and torrent_id
keep(f) == f.name # <<>> /\ f.id # <<>>

RECURSIVE parse_sections(_, _)
parse_sections(acc, sections) ==
    IF sections = <<>> THEN acc
    ELSE LET f == parse_section(Head(sections))
         IN IF f.raised THEN [raised |-> TRUE, torrents |-> <<>>]
            ELSE parse_sections(
                    [acc EXCEPT !.torrents =
                        IF keep(f) THEN Append(@, Torrent(f)) ELSE @],
                    Tail(sections))

\* parse_torrent_info(torrent_info, verbose): the list returned, or the
\* ValueError that float() raises out of it.
parse_torrent_info(torrent_info) ==
    parse_sections([raised |-> FALSE, torrents |-> <<>>],
                   split(torrent_info, <<NL, NL>>))

----------------------------------------------------------------------------
(* Deluge.run_command *)

\* if self.container
truthy(v) == v # None /\ v # ""

\* run_command(command) given what the console process does: its exit
\* status and what it writes to stdout.  With a container the process is
\* run without check=True, so no CalledProcessError is ever raised; on the
\* host shell check=True raises it on a non-zero status and the handler
\* returns "".
run_command(container, status, stdout) ==
    IF truthy(container)
    THEN strip(stdout)
    ELSE IF status # 0 THEN <<>> ELSE strip(stdout)

info_command == <<"info", SP, "--detailed">>
pause_command(id) == <<"pause", SP>> \o id
rm_command(id) == <<"rm", SP>> \o id

----------------------------------------------------------------------------
(* The console's dumps *)

RECURSIVE join(_, _)
join(parts, sep) ==
    IF parts = <<>> THEN <<>>
    ELSE IF Len(parts) = 1 THEN parts[1]
    ELSE parts[1] \o sep \o join(Tail(parts), sep)

Trackers == {"t1", "t2"}
States == {"Seeding", "Paused"}
RatioTexts == {"0.5", "bad"}

\* What the console reports of one torrent.  v.name is "plain" for an
\* ordinary name, "absent" for a block with no Name line, "label" for a
\* torrent whose name reads "Share Ratio: bad"; v.state = None stands for a
\* block with no State line.
Variants ==
    [name : {"plain"}, tracker : Trackers, state : States, ratio : RatioTexts]
    \cup {[name |-> "absent", tracker |-> "t2", state |-> "Seeding", ratio |-> "0.5"],
          [name |-> "plain", tracker |-> "t2", state |-> None, ratio |-> "0.5"],
          [name |-> "label", tracker |-> "t2", state |-> "Seeding", ratio |-> "0.5"]}

\* The k-th block of a dump; the console lists every torrent once, so the
\* ids of a dump are distinct.
Block(k, v) ==
    join((CASE v.name = "plain" ->
                << <<"Name:", SP, "torrent", SP, ToString(k)>> >>
            [] v.name = "label" ->
                << <<"Name:", SP, "Share Ratio:", SP, "bad">> >>
            [] v.name = "absent" -> <<>>)
         \o << <<"ID:", SP, ToString(k)>> >>
         \o (IF v.state # None THEN << <<"State:", SP, v.state>> >> ELSE <<>>)
         \o << <<"Size:", SP, "1G", SP, "Share Ratio:", SP, v.ratio>>,
               <<"Tracker:", SP, v.tracker>> >>,
         <<NL>>)

DumpOf(vs) == join([k \in 1..Len(vs) |-> Block(k, vs[k])], <<NL, NL>>) \o <<NL>>

Dumps == {DumpOf(vs) : vs \in UNION {[1..n -> Variants] : n \in 0..MaxBlocks}}

\* What a console that cannot reach the daemon writes to stdout.
FailOutputs == {<<>>, <<"Could", SP, "not", SP, "connect", NL>>}

----------------------------------------------------------------------------
(* main *)

VARIABLES
    pc,                 \* where main is
    config,             \* load_config()
    args,               \* parser.parse_args(), without test and verbose
    test,               \* args.test
    verbose,            \* args.verbose
    saved,              \* save_config has written config.yaml
    cmds,               \* the commands given to run_command, in order
    torrent_info,       \* deluge.get_all_torrents()
    torrents,           \* parse_torrent_info(torrent_info)
    idx,                \* position of the for loop in torrents
    deleted, skipped_tracker, skipped_ratio, skipped_tracker_ratio,
    branches,           \* the branch of the loop body each record took
    pause_failed,       \* the pause of the current record exited non-zero
    report,             \* the summary printed
    call                \* a call of run_command on its own

counters == <<deleted, skipped_tracker, skipped_ratio, skipped_tracker_ratio>>
settings == <<config, args, test>>

vars ==
    <<pc, config, args, test, verbose, saved, cmds, torrent_info, torrents,
      idx, deleted, skipped_tracker, skipped_ratio, skipped_tracker_ratio,
      branches, pause_failed, report, call>>

RequiredValues == {None, "", "set"}
RatioLimits == {4, 5, 6}
AllowLists == {<<>>, << <<"t1">> >>}

ArgsSet ==
    [host : RequiredValues, port : RequiredValues, user : RequiredValues,
     password : RequiredValues, ratio_limit : RatioLimits,
     container : {None, "deluge"}, allowed_trackers : AllowLists]

\* config.yaml absent: every config.get(key) is None or the default
NoConfig ==
    [host |-> None, port |-> None, user |-> None, password |-> None,
     ratio_limit |-> 5, container |-> None, allowed_trackers |-> <<>>]

required_args == <<"host", "port", "user", "password">>

\* missing_args reporting only when all four are missing
missing_args_all(a) ==
    IF \A k \in 1..Len(required_args) : ~truthy(a[required_args[k]])
    THEN required_args
    ELSE <<>>

\* [arg for arg in required_args if not getattr(args, arg)]
missing_args(a) == SelectSeq(required_args, LAMBDA arg : ~truthy(a[arg]))

\* x in list
in_list(x, list) == \E k \in 1..Len(list) : list[k] = x

\* loop_branch without the allow-list test
loop_branch_no_allow_list(torrent, a) ==
    IF torrent.state = <<"Seeding">> /\ torrent.ratio >= a.ratio_limit
    THEN "deleted"
    ELSE "skipped_ratio"

\* loop_branch with a strict comparison of the ratio
loop_branch_strict(torrent, a) ==
    IF in_list(torrent.tracker, a.allowed_trackers)
    THEN IF torrent.state = <<"Seeding">> /\ torrent.ratio > a.ratio_limit
         THEN "skipped_tracker_ratio"
         ELSE "skipped_tracker"
    ELSE IF torrent.state = <<"Seeding">> /\ torrent.ratio > a.ratio_limit
         THEN "deleted"
         ELSE "skipped_ratio"

\* The branch of the loop body a torrent takes, named by its counter.
loop_branch(torrent, a) ==
    IF in_list(torrent.tracker, a.allowed_trackers)
    THEN IF torrent.state = <<"Seeding">> /\ torrent.ratio >= a.ratio_limit
         THEN "skipped_tracker_ratio"
         ELSE "skipped_tracker"
    ELSE IF torrent.state = <<"Seeding">> /\ torrent.ratio >= a.ratio_limit
         THEN "deleted"
         ELSE "skipped_ratio"

\* bump leaving the allowed-tracker branch uncounted
bump_but_one(counter, name, branch) ==
    IF branch = name /\ name # "skipped_tracker" THEN counter + 1 ELSE counter

\* counter += 1 in the branch named after it
bump(counter, name, branch) == IF branch = name THEN counter + 1 ELSE counter

\* calls_stop_and_remove without the test
calls_stop_and_remove_always(branch, t) == branch = "deleted"

\* "if not test" inside the deleted branch
calls_stop_and_remove(branch, t) == branch = "deleted" /\ ~t

Idle ==
    /\ saved = FALSE
    /\ torrents = <<>>
    /\ idx = 1
    /\ deleted = 0
    /\ skipped_tracker = 0
    /\ skipped_ratio = 0
    /\ skipped_tracker_ratio = 0
    /\ branches = <<>>
    /\ pause_failed = FALSE
    /\ report = [printed |-> FALSE]
    /\ call = [made |-> FALSE]

Init ==
    /\ pc = "start"
    /\ args \in ArgsSet
    /\ config \in {args, NoConfig}
    /\ test \in BOOLEAN
    /\ verbose \in {0, 1}
    /\ cmds = <<>>
    /\ torrent_info = <<>>
    /\ Idle

\* Lines 147-172: the required arguments, the snapshot, test mode.
Configure ==
    /\ pc = "start"
    /\ IF missing_args(args) # <<>>
       THEN /\ pc' = "raised"
            /\ UNCHANGED <<saved, verbose>>
       ELSE /\ pc' = "fetch"
            /\ saved' = (config # args)
            /\ verbose' = IF test THEN 2 ELSE verbose
    /\ UNCHANGED <<settings, cmds, torrent_info, torrents, idx, counters,
                   branches, pause_failed, report, call>>

\* Line 174: deluge.get_all_torrents()
GetAllTorrents ==
    /\ pc = "fetch"
    /\ \E status \in {0, 1}, stdout \in Dumps \cup FailOutputs :
          torrent_info' = run_command(args.container, status, stdout)
    /\ cmds' = Append(cmds, info_command)
    /\ pc' = "parse"
    /\ UNCHANGED <<settings, verbose, saved, torrents, idx, counters,
                   branches, pause_failed, report, call>>

\* Line 175: parse_torrent_info(torrent_info, verbose)
Parse ==
    /\ pc = "parse"
    /\ LET r == parse_torrent_info(torrent_info)
       IN IF r.raised
          THEN pc' = "raised" /\ UNCHANGED torrents
          ELSE pc' = "loop" /\ torrents' = r.torrents
    /\ UNCHANGED <<settings, verbose, saved, cmds, torrent_info, idx,
                   counters, branches, pause_failed, report, call>>

\* Lines 182-208: one iteration of the loop, up to the call of
\* stop_and_remove.
LoopBody ==
    /\ pc = "loop"
    /\ idx <= Len(torrents)
    /\ LET b == loop_branch(torrents[idx], args)
       IN /\ branches' = Append(branches, b)
          /\ deleted' = bump(deleted, "deleted", b)
          /\ skipped_ratio' = bump(skipped_ratio, "skipped_ratio", b)
          /\ skipped_tracker' = bump(skipped_tracker, "skipped_tracker", b)
          /\ skipped_tracker_ratio' =
                bump(skipped_tracker_ratio, "skipped_tracker_ratio", b)
          /\ IF calls_stop_and_remove(b, test)
             THEN pc' = "stop" /\ UNCHANGED idx
             ELSE pc' = "loop" /\ idx' = idx + 1
    /\ pause_failed' = FALSE
    /\ UNCHANGED <<settings, verbose, saved, cmds, torrent_info, torrents,
                   report, call>>

\* Stop ending the run when the pause fails
StopOrRaise ==
    /\ pc = "stop"
    /\ cmds' = Append(cmds, pause_command(torrents[idx].id))
    /\ \E status \in {0, 1} :
          /\ pause_failed' = (status # 0)
          /\ pc' = IF status # 0 THEN "raised" ELSE "remove"
    /\ UNCHANGED <<settings, verbose, saved, torrent_info, torrents, idx,
                   counters, branches, report, call>>

\* Torrent.stop: deluge.run_command(f"pause {self.id}"); what it returns is
\* dropped, whatever the exit status of the console.
Stop ==
    /\ pc = "stop"
    /\ cmds' = Append(cmds, pause_command(torrents[idx].id))
    /\ \E status \in {0, 1} : pause_failed' = (status # 0)
    /\ pc' = "remove"
    /\ UNCHANGED <<settings, verbose, saved, torrent_info, torrents, idx,
                   counters, branches, report, call>>

\* Torrent.remove: deluge.run_command(f"rm {self.id}"), result dropped
Remove ==
    /\ pc = "remove"
    /\ cmds' = Append(cmds, rm_command(torrents[idx].id))
    /\ idx' = idx + 1
    /\ pc' = "loop"
    /\ UNCHANGED <<settings, verbose, saved, torrent_info, torrents,
                   counters, branches, pause_failed, report, call>>

\* Lines 212-222: the summary
Summary ==
    /\ pc = "loop"
    /\ idx > Len(torrents)
    /\ pc' = "done"
    /\ report' =
        IF verbose >= 1
        THEN [printed |-> TRUE,
              total |-> Len(torrents),
              label |-> IF ~test THEN "Deleted" ELSE "Would be deleted",
              deleted |-> deleted,
              total_skipped |->
                  skipped_tracker + skipped_ratio + skipped_tracker_ratio,
              due_to_ratio |-> skipped_ratio,
              under_limit |-> skipped_tracker,
              over_limit |-> skipped_tracker_ratio]
        ELSE [printed |-> FALSE]
    /\ UNCHANGED <<settings, verbose, saved, cmds, torrent_info, torrents,
                   idx, counters, branches, pause_failed, call>>

Next ==
    \/ Configure
    \/ GetAllTorrents
    \/ Parse
    \/ LoopBody
    \/ Stop
    \/ Remove
    \/ Summary

Spec == Init /\ [][Next]_vars

----------------------------------------------------------------------------
(* parse_torrent_info on its own, over dumps of every shape *)

HeadLines ==
    {<< <<"Name:", SP, "a">>, <<"ID:", SP, "1">> >>,
     << <<"ID:", SP, "2">> >>,
     << <<"Name:", SP, "Share Ratio:", SP, "0.6">>, <<"ID:", SP, "3">> >>,
     << <<"Name:">>, <<"ID:", SP, "4">> >>}

TailLines ==
    {<<>>,
     << <<"Share Ratio:", SP, "0.4">> >>,
     << <<"Size:", SP, "1G", SP, "Share Ratio:", SP, "0.6", SP>> >>,
     << <<"State:", SP, "Share Ratio:", SP, "0.4">> >>,
     << <<"Tracker:", SP, "Share Ratio:", SP, "0.5">> >>,
     << <<"Share Ratio:", SP, "0.5", SP, "Share Ratio:", SP, "0.6">> >>,
     << <<"Share Ratio:", SP, "bad">> >>,
     << <<"Share Ratio:", SP, "0.4">>, <<"Share Ratio:", SP, "0.6">> >>,
     << <<>>, <<"Share Ratio:", SP, "0.5">> >>}

ParseSections == {join(h \o t, <<NL>>) : h \in HeadLines, t \in TailLines}

ParseDumps ==
    {join(ss, <<NL, NL>>) :
        ss \in UNION {[1..n -> ParseSections] : n \in 0..MaxBlocks}}

InitParse ==
    /\ pc = "parse"
    /\ args = [NoConfig EXCEPT !.host = "set", !.port = "set", !.user = "set",
                               !.password = "set"]
    /\ config = args
    /\ test = FALSE
    /\ verbose = 0
    /\ cmds = <<info_command>>
    /\ torrent_info \in ParseDumps
    /\ Idle

SpecParse == InitParse /\ [][Parse]_vars

----------------------------------------------------------------------------
(* Deluge.run_command on its own *)

Commands == {info_command, pause_command(<<"1">>), rm_command(<<"1">>)}
Statuses == {0, 1, 2}
Outputs ==
    {<<>>, <<NL>>, <<"ok">>, <<"ok", NL>>,
     <<SP, "Could", SP, "not", SP, "connect", NL>>}

InitRun ==
    /\ pc = "run"
    /\ \E c \in {None, "", "deluge"} :
          args = [NoConfig EXCEPT !.host = "set", !.port = "set",
                                  !.user = "set", !.password = "set",
                                  !.container = c]
    /\ config = args
    /\ test = FALSE
    /\ verbose = 0
    /\ cmds = <<>>
    /\ torrent_info = <<>>
    /\ Idle

\* deluge.run_command(command), the console exiting with status after
\* writing stdout
RunCommand ==
    /\ pc = "run"
    /\ \E command \in Commands, status \in Statuses, stdout \in Outputs :
          call' = [made |-> TRUE, command |-> command, status |-> status, stdout |-> stdout,
                   returned |-> run_command(args.container, status, stdout)]
    /\ UNCHANGED <<pc, settings, verbose, saved, cmds, torrent_info, torrents,
                   idx, counters, branches, pause_failed, report>>

SpecRun == InitRun /\ [][RunCommand]_vars

----------------------------------------------------------------------------
(* What the specification says, stated without the code's operators *)

\* The pieces of s between separators of n consecutive newlines, read left
\* to right.
RECURSIVE Pieces(_, _, _)
Pieces(s, n, cur) ==
    IF s = <<>> THEN <<cur>>
    ELSE IF Len(s) >= n /\ \A j \in 1..n : s[j] = NL
    THEN <<cur>> \o Pieces(SubSeq(s, n + 1, Len(s)), n, <<>>)
    ELSE Pieces(Tail(s), n, Append(cur, Head(s)))

\* The blank-line-separated blocks of a dump, and the lines of a block.
BlocksOf(dump) == Pieces(dump, 2, <<>>)
LinesOf(block) == Pieces(block, 1, <<>>)

Last(S) == CHOOSE k \in S : \A j \in S : j <= k
First(S) == CHOOSE k \in S : \A j \in S : k <= j

\* The trimmed text after the first occurrence of label in line, up to
\* the next occurrence of label if there is one.
ValueAfter(line, label) ==
    LET at == {k \in 1..Len(line) : line[k] = label}
        p == First(at)
        later == {k \in at : k > p}
        q == IF later = {} THEN Len(line) + 1 ELSE First(later)
        txt == SubSeq(line, p + 1, q - 1)
        ws == {k \in 1..Len(txt) : txt[k] \notin Whitespace}
    IN IF ws = {} THEN <<>> ELSE SubSeq(txt, First(ws), Last(ws))

\* The value of the last line of block that begins with label, "" if none.
FieldOf(block, label) ==
    LET ls == LinesOf(block)
        at == {k \in 1..Len(ls) : ls[k] # <<>> /\ ls[k][1] = label}
    IN IF at = {} THEN <<>> ELSE ValueAfter(ls[Last(at)], label)

IsNumeral(txt) == txt \in {<<"0">>, <<"0.4">>, <<"0.5">>, <<"0.6">>}
TenthsOf(txt) ==
    CASE txt = <<"0">> -> 0 [] txt = <<"0.4">> -> 4
      [] txt = <<"0.5">> -> 5 [] txt = <<"0.6">> -> 6

Begins(line, labels) == line # <<>> /\ line[1] \in labels
Holds(line, label) == label \in {line[k] : k \in 1..Len(line)}

\* The lines of block that carry a share ratio: those holding the label
\* anywhere, but for the ones beginning with a label of `before`.
RatioLines(block, before) ==
    LET ls == LinesOf(block)
    IN {k \in 1..Len(ls) :
            Holds(ls[k], "Share Ratio:") /\ ~Begins(ls[k], before)}

\* Some line of the text, among those that carry a share ratio, has a
\* value that is no number.  Position k holds the first "Share Ratio:" of
\* its line, the line runs from `from` and the value up to `to`.
Malformed(text, before) ==
    \E k \in 1..Len(text) :
        /\ text[k] = "Share Ratio:"
        /\ LET breaks == {j \in 1..(k - 1) : text[j] = NL}
               from == IF breaks = {} THEN 1 ELSE Last(breaks) + 1
               ends == {j \in (k + 1)..Len(text) :
                            text[j] \in {NL, "Share Ratio:"}}
               to == IF ends = {} THEN Len(text) ELSE First(ends) - 1
               word == {j \in (k + 1)..to : text[j] \notin Whitespace}
           IN /\ \A j \in from..(k - 1) : text[j] # "Share Ratio:"
              /\ text[from] \notin before
              /\ ~(Cardinality(word) = 1
                   /\ \A j \in word : IsNumeral(<<text[j]>>))

\* The four-way rule of the classifier.
Disposition(tracker, state, ratio, ratio_limit, allowed) ==
    LET listed == tracker \in allowed
        qualifies == state = <<"Seeding">> /\ ratio >= ratio_limit
    IN CASE listed /\ qualifies -> "SkipAllowedTrackerOverLimit"
         [] listed /\ ~qualifies -> "SkipAllowedTrackerUnderLimit"
         [] ~listed /\ qualifies -> "Delete"
         [] OTHER -> "SkipRatio"

AllowedSet == {args.allowed_trackers[k] : k \in 1..Len(args.allowed_trackers)}

DispositionOf(t) ==
    Disposition(t.tracker, t.state, t.ratio, args.ratio_limit, AllowedSet)

CounterOf(d) ==
    CASE d = "Delete" -> "deleted"
      [] d = "SkipRatio" -> "skipped_ratio"
      [] d = "SkipAllowedTrackerUnderLimit" -> "skipped_tracker"
      [] d = "SkipAllowedTrackerOverLimit" -> "skipped_tracker_ratio"

Issued(command) == \E k \in 1..Len(cmds) : cmds[k] = command
Mutating == SelectSeq(cmds, LAMBDA c : c[1] \in {"pause", "rm"})

----------------------------------------------------------------------------
(* C1 *)

\* C1: no pause or rm command is ever issued for the id of a record whose
\* tracker is on the allow-list, and such a record, when seeding at or over
\* the ratio limit, is counted as skipped (allowed tracker, over limit),
\* never as deleted.
C1_AllowListedNeverTouched ==
    \A k \in 1..Len(torrents) :
        torrents[k].tracker \in AllowedSet =>
            /\ ~Issued(pause_command(torrents[k].id))
            /\ ~Issued(rm_command(torrents[k].id))
            /\ (k <= Len(branches)
                /\ torrents[k].state = <<"Seeding">>
                /\ torrents[k].ratio >= args.ratio_limit)
               => branches[k] = "skipped_tracker_ratio"

C1_Witness ==
    /\ pc = "done"
    /\ ~test
    /\ Len(torrents) = 2
    /\ torrents[1].tracker \in AllowedSet
    /\ torrents[1].state = <<"Seeding">>
    /\ torrents[1].ratio >= args.ratio_limit
    /\ skipped_tracker_ratio = 1
    /\ Issued(rm_command(torrents[2].id))

----------------------------------------------------------------------------
(* C2 *)

\* C2: the branch the loop takes for each record is the one the four-way
\* rule gives for its tracker, state and ratio under the configured limit
\* and allow-list.
C2_FourWayRule ==
    \A k \in 1..Len(branches) :
        branches[k] = CounterOf(DispositionOf(torrents[k]))

C2_Witness ==
    /\ pc = "done"
    /\ Len(torrents) = 2
    /\ torrents[1].ratio = args.ratio_limit
    /\ branches[1] = "deleted"
    /\ torrents[2].state = <<>>
    /\ torrents[2].ratio >= args.ratio_limit
    /\ branches[2] = "skipped_ratio"

----------------------------------------------------------------------------
(* C3 *)

\* The commands stop_and_remove gives for the records 1..n that the rule
\* deletes.
RECURSIVE PauseRemovePairs(_)
PauseRemovePairs(n) ==
    IF n = 0 THEN <<>>
    ELSE PauseRemovePairs(n - 1)
         \o (IF DispositionOf(torrents[n]) = "Delete"
             THEN <<pause_command(torrents[n].id), rm_command(torrents[n].id)>>
             ELSE <<>>)

\* C3: without --test the mutating commands issued are, record by record in
\* order, "pause <id>" then "rm <id>" for each record the rule deletes and
\* nothing else; a pause that fails neither ends the run nor keeps the rm
\* from being issued.
C3_PauseThenRemove ==
    ~test =>
        /\ pc \in {"loop", "stop", "done"} => Mutating = PauseRemovePairs(idx - 1)
        /\ pc \in {"stop", "remove"} => DispositionOf(torrents[idx]) = "Delete"
        /\ pc = "remove" =>
              Mutating = PauseRemovePairs(idx - 1)
                         \o <<pause_command(torrents[idx].id)>>
        /\ pc = "done" => idx = Len(torrents) + 1
        /\ pc = "raised" => Mutating = <<>>
        /\ pause_failed => pc \in {"remove", "loop", "done"}

C3_Witness ==
    /\ ~test
    /\ pause_failed
    /\ pc = "loop"
    /\ Len(Mutating) = 4
    /\ Mutating[4] = rm_command(torrents[2].id)

----------------------------------------------------------------------------
(* C4 *)

CountOf(d) == Cardinality({k \in 1..Len(torrents) : DispositionOf(torrents[k]) = d})

\* C4: with --test no pause or rm command is issued, and at the end every
\* counter holds the number of records of its disposition, the deleted
\* counter being printed as "Would be deleted".
C4_DryRun ==
    test =>
        /\ Mutating = <<>>
        /\ pc = "done" =>
              /\ deleted = CountOf("Delete")
              /\ skipped_ratio = CountOf("SkipRatio")
              /\ skipped_tracker = CountOf("SkipAllowedTrackerUnderLimit")
              /\ skipped_tracker_ratio = CountOf("SkipAllowedTrackerOverLimit")
              /\ report.printed
              /\ report.label = "Would be deleted"
              /\ report.deleted = deleted

C4_Witness ==
    /\ test
    /\ pc = "done"
    /\ deleted = 2
    /\ cmds = <<info_command>>

----------------------------------------------------------------------------
(* C5 *)

\* C5: when host, port, user or password is None or empty, main raises
\* before any console command is issued and before config.yaml is written.
C5_MissingRequired ==
    (\E f \in {"host", "port", "user", "password"} : args[f] \in {None, ""})
        => /\ cmds = <<>>
           /\ ~saved
           /\ pc \in {"start", "raised"}

C5_Witness ==
    /\ pc = "raised"
    /\ args.password = ""
    /\ args.host = "set" /\ args.port = "set" /\ args.user = "set"
    /\ config # args

----------------------------------------------------------------------------
(* C9 *)

\* C9: at the summary the four counters add up to the number of records
\* parse_torrent_info returned, and without --test the number of pause and
\* rm commands issued is twice the deleted counter.
C9_CountersAddUp ==
    pc = "done" =>
        /\ deleted + skipped_ratio + skipped_tracker + skipped_tracker_ratio
              = Len(torrents)
        /\ Len(branches) = Len(torrents)
        /\ ~test => Len(Mutating) = 2 * deleted

C9_Witness ==
    /\ pc = "done"
    /\ ~test
    /\ deleted = 1
    /\ skipped_tracker = 1
    /\ Len(Mutating) = 2

----------------------------------------------------------------------------
(* C10 *)

\* C10 as claimed: a dump with a line anywhere that holds "Share Ratio:"
\* followed by text that is no number ends the run with no pause or rm
\* issued.
C10_AnyLine ==
    Malformed(torrent_info, {}) => (Mutating = <<>> /\ pc # "done")

\* C10: a dump with a line that holds "Share Ratio:", does not begin with
\* "Name:", "ID:" or "State:", and whose text after the label is no number,
\* raises out of the parse: the only command issued is the one
\* "info --detailed", whatever the records of the other blocks.
C10_ParsedBeforeActing ==
    \/ cmds = <<info_command>> /\ pc \in {"parse", "raised"}
    \/ ~Malformed(torrent_info, {"Name:", "ID:", "State:"})

C10_Witness ==
    /\ pc = "raised"
    /\ ~test
    /\ LET blocks == BlocksOf(torrent_info)
       IN /\ Len(blocks) = 2
          /\ FieldOf(blocks[1], "State:") = <<"Seeding">>
          /\ FieldOf(blocks[1], "Name:") # <<>>
          /\ FieldOf(blocks[1], "Tracker:") \notin AllowedSet
          /\ ~Malformed(blocks[1], {"Name:", "ID:", "State:"})
          /\ args.ratio_limit <= 5
          /\ Malformed(blocks[2], {"Name:", "ID:", "State:"})

----------------------------------------------------------------------------
(* C7 *)

Kept(dump) ==
    SelectSeq(BlocksOf(dump),
              LAMBDA b : FieldOf(b, "Name:") # <<>> /\ FieldOf(b, "ID:") # <<>>)

\* C7: what parse_torrent_info returns is, in order, one record for each
\* block whose name and id are both non-empty, and nothing for the others.
C7_KeptBlocksInOrder ==
    pc = "loop" =>
        LET kept == Kept(torrent_info)
        IN /\ Len(torrents) = Len(kept)
           /\ \A k \in 1..Len(torrents) :
                 /\ torrents[k].name = FieldOf(kept[k], "Name:")
                 /\ torrents[k].id = FieldOf(kept[k], "ID:")

C7_Witness ==
    /\ pc = "loop"
    /\ Len(torrents) = 2
    /\ torrents[1].id # torrents[2].id
    /\ Len(BlocksOf(torrent_info)) = 3

----------------------------------------------------------------------------
(* C8 *)

\* The ratio the lines of a block give when the lines that carry one are
\* all but those beginning with a label of `before`.
RatioOf(block, before) ==
    LET at == RatioLines(block, before)
    IN IF at = {} THEN 0
       ELSE LET txt == ValueAfter(LinesOf(block)[Last(at)], "Share Ratio:")
            IN IF IsNumeral(txt) THEN TenthsOf(txt) ELSE -1

\* C8 as claimed: the ratio of a record is the number on the last line of
\* its block that holds "Share Ratio:" anywhere, lines beginning with
\* "Name:", "ID:" or "State:" included, and 0 without such a line.
C8_AnyLineSetsRatio ==
    pc = "loop" =>
        LET kept == Kept(torrent_info)
        IN \A k \in 1..Len(torrents) :
              torrents[k].ratio = RatioOf(kept[k], {})

\* C8: the ratio of a record is the number on the last line of its block
\* that holds "Share Ratio:" and does not begin with "Name:", "ID:" or
\* "State:", read from the trimmed text between the label and its next
\* occurrence on the line (or the end of the line); it is 0 without such a
\* line.
C8_UnlabelledLineSetsRatio ==
    pc = "loop" =>
        LET kept == Kept(torrent_info)
        IN \A k \in 1..Len(torrents) :
              torrents[k].ratio = RatioOf(kept[k], {"Name:", "ID:", "State:"})

C8_Witness ==
    /\ pc = "loop"
    /\ Len(torrents) = 2
    /\ RatioLines(Kept(torrent_info)[1], {}) # {}
    /\ RatioLines(Kept(torrent_info)[1], {"Name:", "ID:", "State:"}) = {}
    /\ torrents[1].ratio = 0
    /\ \E j \in 1..Len(LinesOf(Kept(torrent_info)[2])) :
          Begins(LinesOf(Kept(torrent_info)[2])[j], {"Size:"})
    /\ torrents[2].ratio = 6

----------------------------------------------------------------------------
(* C6 *)

\* C6 as claimed: run_command returns "" whenever the console process
\* exits with a non-zero status, with or without a container.
C6_EmptyOnNonZeroExit ==
    (call.made /\ call.status # 0) => call.returned = <<>>

====
